---- MODULE Spec2Model ----
(***************************************************************************)
(* A model of scorer.py: get_transactions, calculate_features,             *)
(* calculate_risk_scores and the main block.                               *)
(*                                                                         *)
(* pandas computes every score in IEEE-754 binary64, and the last step     *)
(* truncates a quotient, so rounding decides results.  The arithmetic is   *)
(* therefore modelled bit-exactly: a finite double is sign * m * 2^e with  *)
(* m a 53-bit natural (or zero), and every operation computes the exact    *)
(* result and rounds it to nearest, ties to even.  TLC's integers are 32   *)
(* bits wide, so a mantissa is a sequence of 15-bit limbs, least           *)
(* significant first.                                                      *)
(***************************************************************************)
EXTENDS Integers, Sequences, FiniteSets, TLC

(***************************************************************************)
(* Let1(v, Body) is Body(v), and Let2(v, w, Body) is Body(v, w), with v    *)
(* and w evaluated once, before Body is.                                   *)
(***************************************************************************)
Let1(v, Body(_)) == CHOOSE r \in {Body(x) : x \in {v}} : TRUE

Let2(v, w, Body(_, _)) == CHOOSE r \in {Body(x, y) : x \in {v}, y \in {w}} : TRUE

\* The values of f, a function on 1..n, as a sequence that holds them.
Series(f) == f \o <<>>

(***************************************************************************)
(* Naturals of any size: <<>> is 0, otherwise limbs in 0..Base-1, the last *)
(* one non-zero.                                                           *)
(***************************************************************************)
Base == 2^15

RECURSIVE NNormTo(_, _)
NNormTo(a, n) ==
    IF n = 0 THEN <<>>
    ELSE IF a[n] = 0 THEN NNormTo(a, n - 1)
    ELSE SubSeq(a, 1, n)

\* a without its leading zero limbs.
NNorm(a) == Let1(a, LAMBDA v : NNormTo(v, Len(v)))

RECURSIVE NFromInt(_)
NFromInt(n) == IF n = 0 THEN <<>> ELSE <<n % Base>> \o NFromInt(n \div Base)

\* The value of the limbs of a from i on, for a natural below 2^31.
RECURSIVE NToIntFrom(_, _)
NToIntFrom(a, i) == IF i > Len(a) THEN 0 ELSE a[i] + Base * NToIntFrom(a, i + 1)

NToInt(a) == Let1(a, LAMBDA v : NToIntFrom(v, 1))

Limb(a, i) == IF i <= Len(a) THEN a[i] ELSE 0

RECURSIVE NAddFrom(_, _, _, _)
NAddFrom(a, b, i, c) ==
    IF i > Len(a) /\ i > Len(b)
    THEN (IF c = 0 THEN <<>> ELSE <<c>>)
    ELSE Let1(Limb(a, i) + Limb(b, i) + c,
              LAMBDA s : <<s % Base>> \o NAddFrom(a, b, i + 1, s \div Base))

NAdd(a, b) == Let2(a, b, LAMBDA v, w : NAddFrom(v, w, 1, 0))

\* a - b for a >= b.
RECURSIVE NSubFrom(_, _, _, _)
NSubFrom(a, b, i, c) ==
    IF i > Len(a) THEN <<>>
    ELSE Let1(Limb(a, i) - Limb(b, i) - c,
              LAMBDA s : <<s % Base>> \o NSubFrom(a, b, i + 1, IF s < 0 THEN 1 ELSE 0))

NSub(a, b) == Let2(a, b, LAMBDA v, w : NNorm(NSubFrom(v, w, 1, 0)))

\* -1, 0 or 1 as a < b, a = b, a > b.
RECURSIVE NCmpFrom(_, _, _)
NCmpFrom(a, b, i) ==
    IF i = 0 THEN 0
    ELSE IF a[i] < b[i] THEN -1
    ELSE IF a[i] > b[i] THEN 1
    ELSE NCmpFrom(a, b, i - 1)

NCmp(a, b) ==
    Let2(a, b, LAMBDA v, w :
        IF Len(v) < Len(w) THEN -1
        ELSE IF Len(v) > Len(w) THEN 1
        ELSE NCmpFrom(v, w, Len(v)))

\* a * k for 0 <= k < Base.
RECURSIVE NMulSmallFrom(_, _, _, _)
NMulSmallFrom(a, k, i, c) ==
    IF i > Len(a)
    THEN (IF c = 0 THEN <<>> ELSE <<c>>)
    ELSE Let1(a[i] * k + c,
              LAMBDA s : <<s % Base>> \o NMulSmallFrom(a, k, i + 1, s \div Base))

NMulSmall(a, k) ==
    Let2(a, k, LAMBDA v, w : IF w = 0 THEN <<>> ELSE NMulSmallFrom(v, w, 1, 0))

\* a * Base^n.
NShlLimbs(a, n) == Let1(a, LAMBDA v : IF v = <<>> THEN <<>> ELSE [j \in 1..n |-> 0] \o v)

RECURSIVE NMulFrom(_, _, _)
NMulFrom(a, b, i) ==
    IF i > Len(b) THEN <<>>
    ELSE NAdd(NShlLimbs(NMulSmall(a, b[i]), i - 1), NMulFrom(a, b, i + 1))

NMul(a, b) == Let2(a, b, LAMBDA v, w : NMulFrom(v, w, 1))

\* a * 2^n.
NShl(a, n) == Let1(n, LAMBDA w : NShlLimbs(NMulSmall(a, 2^(w % 15)), w \div 15))

\* floor(a / k) for 0 < k < Base, from the top limb down.
RECURSIVE NDivSmallFrom(_, _, _, _)
NDivSmallFrom(a, k, i, r) ==
    IF i = 0 THEN <<>>
    ELSE Let1(r * Base + a[i],
              LAMBDA s : NDivSmallFrom(a, k, i - 1, s % k) \o <<s \div k>>)

NDivSmall(a, k) == Let2(a, k, LAMBDA v, w : NNorm(NDivSmallFrom(v, w, Len(v), 0)))

\* floor(a / 2^n).
NShr(a, n) ==
    Let2(a, n, LAMBDA v, w :
        IF w \div 15 >= Len(v) THEN <<>>
        ELSE NDivSmall(SubSeq(v, w \div 15 + 1, Len(v)), 2^(w % 15)))

RECURSIVE BitLenInt(_)
BitLenInt(n) == IF n = 0 THEN 0 ELSE 1 + BitLenInt(n \div 2)

NBitLen(a) ==
    Let1(a, LAMBDA v : IF v = <<>> THEN 0 ELSE 15 * (Len(v) - 1) + BitLenInt(v[Len(v)]))

(***************************************************************************)
(* Long division in base Base.  d is first scaled so that its top limb is  *)
(* at least Base/2; each quotient limb is then estimated from the top two  *)
(* limbs of the running remainder and lowered until it fits.               *)
(***************************************************************************)
RECURSIVE NFitDigit(_, _, _)
NFitDigit(r, d, q) == IF NCmp(NMulSmall(d, q), r) > 0 THEN NFitDigit(r, d, q - 1) ELSE q

NQuotDigit(r, d) ==
    Let1((Limb(r, Len(d) + 1) * Base + Limb(r, Len(d))) \div d[Len(d)],
         LAMBDA est : NFitDigit(r, d, IF est > Base - 1 THEN Base - 1 ELSE est))

\* <<quotient limbs from position i down, remainder>>, r the remainder so far.
RECURSIVE NDivFrom(_, _, _, _)
NDivFrom(a, d, i, r) ==
    IF i = 0 THEN <<<<>>, r>>
    ELSE Let1(NNorm(<<a[i]>> \o r), LAMBDA cur :
         Let1(NQuotDigit(cur, d), LAMBDA q :
         Let1(NDivFrom(a, d, i - 1, NSub(cur, NMulSmall(d, q))), LAMBDA rest :
              <<rest[1] \o <<q>>, rest[2]>>)))

\* <<floor(a / d), whether the division left a remainder>> for d > 0.
NDivMod(a, d) ==
    Let2(a, d, LAMBDA v, w :
    Let1(15 - BitLenInt(w[Len(w)]), LAMBDA sh :
    Let2(NShl(v, sh), NShl(w, sh), LAMBDA vs, ws :
    Let1(NDivFrom(vs, ws, Len(vs), <<>>), LAMBDA res :
         <<NNorm(res[1]), res[2] # <<>>>>))))

(***************************************************************************)
(* binary64 values.  k is "num", "nan" or "inf"; a "num" is                *)
(* (-1)^s * m * 2^e with m = <<>> (zero, written with s = 0 and e = 0) or  *)
(* m of exactly MantBits bits.  The sign of a zero is not kept: the code   *)
(* only compares, subtracts, multiplies and truncates zeros, which gives   *)
(* the same result for +0.0 and -0.0.  Exponents stay far inside           *)
(* binary64's range for the magnitudes the program handles, so overflow    *)
(* and subnormals are not modelled.                                        *)
(***************************************************************************)
MantBits == 53

FZero == [k |-> "num", s |-> 0, m |-> <<>>, e |-> 0]
FNaN  == [k |-> "nan", s |-> 0, m |-> <<>>, e |-> 0]
FInf(s) == [k |-> "inf", s |-> s, m |-> <<>>, e |-> 0]
FNum(s, m, e) == [k |-> "num", s |-> s, m |-> m, e |-> e]

\* n, of more than MantBits bits, cut to MantBits bits: <<the mantissa, the
\* number of bits dropped>>.  The dropped bits, and a fraction below them when
\* sticky, round to nearest, ties to even.
FRoundCut(n, len, sticky) ==
    Let1(len - MantBits, LAMBDA drop :
    Let1(NShr(n, drop), LAMBDA q :
    Let1(NCmp(NSub(n, NShl(q, drop)), NShl(<<1>>, drop - 1)), LAMBDA c :
    Let1(IF c > 0 \/ (c = 0 /\ (sticky \/ q[1] % 2 = 1)) THEN NAdd(q, <<1>>) ELSE q,
         LAMBDA q2 :
            IF NBitLen(q2) > MantBits THEN <<NShr(q2, 1), drop + 1>> ELSE <<q2, drop>>))))

\* The double nearest to (-1)^s * (n + f) * 2^e, where f is 0, or some fraction
\* strictly between 0 and 1 when sticky (n then has more than MantBits bits).
FRound(s, n, e, sticky) ==
    Let2(n, NBitLen(n), LAMBDA v, len :
        IF v = <<>> THEN FZero
        ELSE IF len <= MantBits THEN FNum(s, NShl(v, MantBits - len), e - (MantBits - len))
        ELSE Let1(FRoundCut(v, len, sticky), LAMBDA cut : FNum(s, cut[1], e + cut[2])))

FFromNat(n) == FRound(0, n, 0, FALSE)

\* int -> float64
FFromInt(n) ==
    Let1(n, LAMBDA v :
        IF v < 0 THEN FRound(1, NFromInt(-v), 0, FALSE) ELSE FRound(0, NFromInt(v), 0, FALSE))

FNeg(a) ==
    Let1(a, LAMBDA v :
        IF v.k = "nan" \/ (v.k = "num" /\ v.m = <<>>) THEN v ELSE [v EXCEPT !.s = 1 - v.s])

\* a + b for non-zero numbers.
FAddNum(a, b) ==
    Let1(IF a.e < b.e THEN a.e ELSE b.e, LAMBDA e :
    Let2(NShl(a.m, a.e - e), NShl(b.m, b.e - e), LAMBDA am, bm :
    Let1(NCmp(am, bm), LAMBDA c :
        IF a.s = b.s THEN FRound(a.s, NAdd(am, bm), e, FALSE)
        ELSE IF c = 0 THEN FZero
        ELSE IF c > 0 THEN FRound(a.s, NSub(am, bm), e, FALSE)
        ELSE FRound(b.s, NSub(bm, am), e, FALSE))))

\* a + b
FAdd(a, b) ==
    Let2(a, b, LAMBDA v, w :
        IF v.k = "nan" \/ w.k = "nan" THEN FNaN
        ELSE IF v.k = "inf" THEN (IF w.k = "inf" /\ w.s # v.s THEN FNaN ELSE v)
        ELSE IF w.k = "inf" THEN w
        ELSE IF v.m = <<>> THEN w
        ELSE IF w.m = <<>> THEN v
        ELSE FAddNum(v, w))

\* a - b
FSub(a, b) == FAdd(a, FNeg(b))

\* a * b
FMul(a, b) ==
    Let2(a, b, LAMBDA v, w :
        IF v.k = "nan" \/ w.k = "nan" THEN FNaN
        ELSE IF v.k = "inf" \/ w.k = "inf"
             THEN (IF (v.k = "num" /\ v.m = <<>>) \/ (w.k = "num" /\ w.m = <<>>)
                   THEN FNaN ELSE FInf((v.s + w.s) % 2))
        ELSE FRound((v.s + w.s) % 2, NMul(v.m, w.m), v.e + w.e, FALSE))

\* a / b: 0/0 is NaN, x/0 is an infinity.
FDiv(a, b) ==
    Let2(a, b, LAMBDA v, w :
        IF v.k = "nan" \/ w.k = "nan" THEN FNaN
        ELSE IF v.k = "inf" THEN (IF w.k = "inf" THEN FNaN ELSE FInf((v.s + w.s) % 2))
        ELSE IF w.k = "inf" THEN FZero
        ELSE IF w.m = <<>> THEN (IF v.m = <<>> THEN FNaN ELSE FInf((v.s + w.s) % 2))
        ELSE IF v.m = <<>> THEN FZero
        ELSE Let1(NDivMod(NShl(v.m, MantBits + 2), w.m), LAMBDA qr :
                  FRound((v.s + w.s) % 2, qr[1], v.e - (MantBits + 2) - w.e, qr[2])))

\* a < b (False when either is NaN).
FLt(a, b) ==
    Let1(FSub(b, a), LAMBDA d : d.k # "nan" /\ d.s = 0 /\ (d.k = "inf" \/ d.m # <<>>))

\* A decimal literal n/d: the double nearest to the rational it denotes.
FDec(n, d) == FDiv(FFromInt(n), FFromInt(d))

\* Truncation towards zero of a finite double below 2^31 in magnitude.
FTrunc(a) ==
    Let1(a, LAMBDA v :
    Let1(IF v.e >= 0 THEN NToInt(NShl(v.m, v.e)) ELSE NToInt(NShr(v.m, -v.e)), LAMBDA mag :
         IF v.s = 1 THEN -mag ELSE mag))

(***************************************************************************)
(* Strings are sequences of characters, so that lower() and indexing from  *)
(* the end do what Python does.                                            *)
(***************************************************************************)
LowerChar(c) ==
    CASE c = "A" -> "a" [] c = "B" -> "b" [] c = "C" -> "c"
      [] c = "D" -> "d" [] c = "E" -> "e" [] c = "F" -> "f"
      [] c = "X" -> "x" [] OTHER -> c

\* str.lower()
Lower(str) == [j \in 1..Len(str) |-> LowerChar(str[j])]

\* str[-n], for n <= len(str)
FromEnd(str, n) == str[Len(str) + 1 - n]

(***************************************************************************)
(* calculate_features.  A transaction is the dict Etherscan returned: a    *)
(* function from the keys it has to their values ("from" and "to" strings, *)
(* "value" a natural number of Wei, "timeStamp" seconds since the epoch).  *)
(* pd.DataFrame(transactions) has a column for every key some transaction  *)
(* has; a transaction without the key holds NaN there.  now is the value   *)
(* datetime.now() returns, in seconds.                                     *)
(***************************************************************************)
SecondsPerDay == 86400

Wei18 == NMul(NFromInt(10^9), NFromInt(10^9))

Returned(value) == [exc |-> "", value |-> value]
Raised(name) == [exc |-> name, value |-> <<>>]

HasColumn(transactions, key) == \E j \in 1..Len(transactions) : key \in DOMAIN transactions[j]

\* df['value'].astype(float) / 1e18 of one row
EtherValue(tx) == IF "value" \in DOMAIN tx THEN FDiv(FFromNat(tx["value"]), FFromNat(Wei18)) ELSE FNaN

\* df['timeStamp'].min(): NaT rows are skipped.
RECURSIVE MinTimeStamp(_, _)
MinTimeStamp(transactions, j) ==
    LET tx == transactions[j]
    IN  IF j = Len(transactions) THEN (IF "timeStamp" \in DOMAIN tx THEN {tx["timeStamp"]} ELSE {})
        ELSE Let1(MinTimeStamp(transactions, j + 1), LAMBDA rest :
                  IF "timeStamp" \notin DOMAIN tx THEN rest
                  ELSE IF rest = {} THEN {tx["timeStamp"]}
                  ELSE {IF tx["timeStamp"] < t THEN tx["timeStamp"] ELSE t : t \in rest})

\* The rows of sent_tx: df[df['from'].str.lower() == wallet_address.lower()]
SentRows(transactions, wallet_address) ==
    SelectSeq(transactions,
              LAMBDA tx : "from" \in DOMAIN tx /\ Lower(tx["from"]) = Lower(wallet_address))

\* Series.sum() of the values that are not NaN, left to right.
RECURSIVE SumValues(_, _)
SumValues(rows, j) ==
    IF j = 0 THEN FZero
    ELSE IF "value" \in DOMAIN rows[j] THEN FAdd(SumValues(rows, j - 1), EtherValue(rows[j]))
    ELSE SumValues(rows, j - 1)

\* sent_tx['value'].mean(): NaN when no row holds a value.
MeanValue(rows) ==
    Let1(Cardinality({j \in 1..Len(rows) : "value" \in DOMAIN rows[j]}), LAMBDA n :
         IF n = 0 THEN FNaN ELSE FDiv(SumValues(rows, Len(rows)), FFromInt(n)))

\* sent_tx['to'].count(): every recipient counts, repeated or not.
NCount(rows) == Cardinality({n \in 1..Len(rows) : "to" \in DOMAIN rows[n]})

\* sent_tx['to'].nunique(): NaN is not counted.
NUnique(rows) == Cardinality({rows[j]["to"] : j \in {n \in 1..Len(rows) : "to" \in DOMAIN rows[n]}})

\* wallet_address[-1] in '012'
MockLiquidations(wallet_address) ==
    IF FromEnd(wallet_address, 1) \in {"0", "1", "2"} THEN 1 ELSE 0

\* wallet_address[-2] in 'abc'
MockHighLtvBorrows(wallet_address) ==
    IF FromEnd(wallet_address, 2) \in {"a", "b", "c"} THEN 1 ELSE 0

\* The flags of a wallet without transactions, by the rule of the other wallets.
EmptyFeaturesMocked(wallet_address) ==
    [wallet_address |-> wallet_address, wallet_age_days |-> 0, tx_count |-> 0,
     avg_eth_sent |-> FZero, unique_recipients |-> 0,
     mock_liquidations |-> MockLiquidations(wallet_address),
     mock_high_ltv_borrows |-> MockHighLtvBorrows(wallet_address)]

\* The record returned when no transactions are found.
EmptyFeatures(wallet_address) ==
    [wallet_address |-> wallet_address, wallet_age_days |-> 0, tx_count |-> 0,
     avg_eth_sent |-> FZero, unique_recipients |-> 0,
     mock_liquidations |-> 0, mock_high_ltv_borrows |-> 0]

calculate_features(transactions, wallet_address, now) ==
    IF transactions = <<>> THEN Returned(EmptyFeatures(wallet_address))
    ELSE IF ~HasColumn(transactions, "value") THEN Raised("KeyError")
    ELSE IF ~HasColumn(transactions, "timeStamp") THEN Raised("KeyError")
    ELSE IF ~HasColumn(transactions, "from") THEN Raised("KeyError")
    ELSE IF ~HasColumn(transactions, "to") THEN Raised("KeyError")
    ELSE IF Len(wallet_address) < 2 THEN Raised("IndexError")
    ELSE Let2(CHOOSE t \in MinTimeStamp(transactions, 1) : TRUE,
              SentRows(transactions, wallet_address), LAMBDA first_tx_date, sent_tx :
             Returned([wallet_address |-> wallet_address,
                       wallet_age_days |-> (now - first_tx_date) \div SecondsPerDay,
                       tx_count |-> Len(transactions),
                       avg_eth_sent |-> IF sent_tx # <<>> THEN MeanValue(sent_tx) ELSE FZero,
                       unique_recipients |-> NUnique(sent_tx),
                       mock_liquidations |-> MockLiquidations(wallet_address),
                       mock_high_ltv_borrows |-> MockHighLtvBorrows(wallet_address)]))

(***************************************************************************)
(* calculate_risk_scores.  A DataFrame is its set of column names and the  *)
(* sequence of its rows, in index order; a Series is the sequence of its   *)
(* values.  The integer columns hold values far below 2^53, which convert  *)
(* to float64 exactly, so every column is read as float64.                 *)
(***************************************************************************)
\* pd.DataFrame(records): a column for every key some record has.
DataFrame(records) ==
    [columns |-> UNION {DOMAIN records[j] : j \in 1..Len(records)}, rows |-> records]

\* df.set_index(column): the column becomes the index (the rows keep it as their
\* label); KeyError when the frame has no such column.
SetIndex(df, column) ==
    IF column \in df.columns THEN Returned([df EXCEPT !.columns = @ \ {column}])
    ELSE Raised("KeyError")

Features ==
    <<"wallet_age_days", "tx_count", "avg_eth_sent", "unique_recipients",
      "mock_liquidations", "mock_high_ltv_borrows">>

weights ==
    [wallet_age_days       |-> FNeg(FDec(1, 10)),
     tx_count              |-> FDec(15, 100),
     avg_eth_sent          |-> FDec(2, 10),
     unique_recipients     |-> FDec(25, 100),
     mock_liquidations     |-> FDec(5, 10),
     mock_high_ltv_borrows |-> FDec(4, 10)]

\* features_df[feature], for a frame that has the column
Column(rows, feature) ==
    Series([j \in 1..Len(rows) |->
        IF feature = "avg_eth_sent" THEN rows[j][feature] ELSE FFromInt(rows[j][feature])])

\* The first value of the series, where its least is meant.
SeriesFirst(col, j) == IF j = 0 THEN FNaN ELSE col[1]

\* Series.min() of the first j values: NaN values are skipped, NaN if none is left.
RECURSIVE SeriesMin(_, _)
SeriesMin(col, j) ==
    IF j = 0 THEN FNaN
    ELSE Let1(SeriesMin(col, j - 1), LAMBDA rest :
              IF col[j].k = "nan" THEN rest
              ELSE IF rest.k = "nan" THEN col[j]
              ELSE IF FLt(col[j], rest) THEN col[j] ELSE rest)

\* Series.max()
RECURSIVE SeriesMax(_, _)
SeriesMax(col, j) ==
    IF j = 0 THEN FNaN
    ELSE Let1(SeriesMax(col, j - 1), LAMBDA rest :
              IF col[j].k = "nan" THEN rest
              ELSE IF rest.k = "nan" THEN col[j]
              ELSE IF FLt(rest, col[j]) THEN col[j] ELSE rest)

\* The pass without its test of max_val - min_val.
NormalizeColumnUnguarded(rows, feature) ==
    Let1(Column(rows, feature), LAMBDA col :
    Let2(SeriesMin(col, Len(col)), SeriesMax(col, Len(col)), LAMBDA min_val, max_val :
         Series([j \in 1..Len(col) |-> FDiv(FSub(col[j], min_val), FSub(max_val, min_val))])))

\* One pass of the normalisation loop: the column normalized_df[feature] gets.
NormalizeColumn(rows, feature) ==
    Let1(Column(rows, feature), LAMBDA col :
    Let2(SeriesMin(col, Len(col)), SeriesMax(col, Len(col)), LAMBDA min_val, max_val :
    Let1(FSub(max_val, min_val), LAMBDA span :
         IF FLt(FZero, span)
         THEN Series([j \in 1..Len(col) |-> FDiv(FSub(col[j], min_val), span)])
         ELSE Series([j \in 1..Len(col) |-> FZero]))))

\* normalized_df after the loop: its n-th weighted column, Features[n], for each n.
Normalize(rows) ==
    Let1(rows, LAMBDA df : Series([n \in 1..Len(Features) |-> NormalizeColumn(df, Features[n])]))

\* (normalized_df[...] * pd.Series(weights)).sum(axis=1) of row j: the first n
\* products, added left to right, a NaN product counting as 0.
RECURSIVE RowSum(_, _, _)
RowSum(normalized, j, n) ==
    IF n = 0 THEN FZero
    ELSE Let1(FMul(normalized[n][j], weights[Features[n]]), LAMBDA prod :
              IF prod.k = "nan" THEN RowSum(normalized, j, n - 1)
              ELSE FAdd(RowSum(normalized, j, n - 1), prod))

\* raw_score, for a frame of len rows
RawScore(normalized, len) ==
    Let1(normalized, LAMBDA cols : Series([j \in 1..len |-> RowSum(cols, j, Len(Features))]))

\* 1000 * (raw_score - min_score) / (max_score - min_score)
FinalScore(raw) ==
    Let1(raw, LAMBDA raw_score :
    Let2(SeriesMin(raw_score, Len(raw_score)), SeriesMax(raw_score, Len(raw_score)),
         LAMBDA min_score, max_score :
    Let1(FSub(max_score, min_score), LAMBDA span :
         Series([j \in 1..Len(raw_score) |->
             FDiv(FMul(FFromInt(1000), FSub(raw_score[j], min_score)), span)]))))

\* final_score.astype(int): pandas refuses to cast NaN or an infinity to an
\* integer (IntCastingNaNError, a ValueError); a finite value is truncated.
AsTypeInt(final) ==
    Let1(final, LAMBDA final_score :
        IF \E j \in 1..Len(final_score) : final_score[j].k # "num" THEN Raised("ValueError")
        ELSE Returned(Series([j \in 1..Len(final_score) |-> FTrunc(final_score[j])])))

\* features_df[feature] raises KeyError for a column the frame does not have.
HasFeatures(df) == \A n \in 1..Len(Features) : Features[n] \in df.columns

calculate_risk_scores(df) ==
    IF ~HasFeatures(df) THEN Raised("KeyError")
    ELSE AsTypeInt(FinalScore(RawScore(Normalize(df.rows), Len(df.rows))))

(***************************************************************************)
(* get_transactions.  A response is what requests.get and Etherscan did:   *)
(* "network_error" (requests.get raised), "http_error" (raise_for_status   *)
(* raised), or "json" with the body's status and result.                   *)
(***************************************************************************)
get_transactions(response) ==
    IF response.kind \in {"network_error", "http_error"} THEN <<>>
    ELSE IF response.status = "1" THEN response.result
    ELSE <<>>

\* features_df.fillna(0)
FillNa(df) ==
    [df EXCEPT !.rows = Series([j \in 1..Len(@) |->
        IF @[j].avg_eth_sent.k = "nan" THEN [@[j] EXCEPT !.avg_eth_sent = FZero] ELSE @[j]])]

\* pd.DataFrame({"wallet_id": features_df.index, "score": scores})
OutputDf(df, score) ==
    Series([j \in 1..Len(df.rows) |->
        [wallet_id |-> df.rows[j].wallet_address, score |-> score[j]]])

(***************************************************************************)
(* Bounds and input domains.                                               *)
(***************************************************************************)
MaxWallets == 2
MaxTx == 2
MaxBatch == 3

Addr_a1 == <<"0", "x", "a", "1">>
Addr_A1 == <<"0", "x", "A", "1">>
Addr_b9 == <<"0", "x", "b", "9">>
Addr_f9 == <<"0", "x", "f", "9">>

Addresses == {Addr_a1, Addr_A1, Addr_f9}

Ether(n) == NMul(NFromInt(n), Wei18)

TimeStamps == {SecondsPerDay, 3 * SecondsPerDay + 1}
StartTimes == {5 * SecondsPerDay}

Keys == {"from", "to", "value", "timeStamp"}

\* Transactions with every field.
Transactions ==
    [from : {Addr_A1, Addr_f9}, to : {Addr_a1, Addr_A1}, value : {Ether(1), Ether(2)},
     timeStamp : TimeStamps]

\* Two transactions wallet 0xa1 sent.
sent_1 == [from |-> Addr_A1, to |-> Addr_f9, value |-> Ether(1), timeStamp |-> SecondsPerDay]
sent_2 == [from |-> Addr_a1, to |-> Addr_a1, value |-> Ether(2), timeStamp |-> 3 * SecondsPerDay + 1]

\* Transactions that may lack fields.
PartialTransactions ==
    {[key \in keys |-> tx[key]] : tx \in {sent_1, sent_2}, keys \in SUBSET Keys}

SeqsUpTo(S, n) == UNION {[1..len -> S] : len \in 0..n}

\* What Etherscan answers in the main loop.
Responses ==
    {[kind |-> "network_error"], [kind |-> "http_error"],
     [kind |-> "json", status |-> "0", result |-> <<>>],
     [kind |-> "json", status |-> "1", result |-> <<sent_1>>],
     [kind |-> "json", status |-> "1", result |-> <<sent_1, sent_2>>]}

\* A row as calculate_features returns it for a wallet with transactions.
Row(address, age, count, avg, recipients) ==
    [wallet_address |-> address, wallet_age_days |-> age, tx_count |-> count,
     avg_eth_sent |-> avg, unique_recipients |-> recipients,
     mock_liquidations |-> MockLiquidations(address),
     mock_high_ltv_borrows |-> MockHighLtvBorrows(address)]

ZeroRow == calculate_features(<<>>, Addr_a1, 0).value

FeatureRows ==
    {ZeroRow,
     Row(Addr_a1, 100, 50, FFromInt(2), 10),
     Row(Addr_A1, 30, 1, FZero, 0),
     Row(Addr_b9, 30, 1, FZero, 0),
     Row(Addr_f9, 30, 20, FDec(5, 10), 3)}

PermutedRows ==
    {Row(Addr_A1, 30, 1, FZero, 0), Row(Addr_b9, 30, 1, FZero, 0),
     Row(Addr_f9, 30, 20, FDec(5, 10), 3)}

\* The frames of at most n rows of S, indexed by wallet_address, and the frame
\* pd.DataFrame([]) of no row and no column.
Batches(S, n) ==
    {[columns |-> {Features[k] : k \in 1..Len(Features)}, rows |-> rows] : rows \in SeqsUpTo(S, n)}
        \cup {DataFrame(<<>>)}

(***************************************************************************)
(* State.  pc is the place in the main block: "fetch" before               *)
(* get_transactions(address), "extract" before calculate_features, "frame" *)
(* before the DataFrame is built, "score" before calculate_risk_scores,    *)
(* "save" before the output is written, "done" after it, "aborted" when an *)
(* exception (exc) ended the run.                                          *)
(***************************************************************************)
VARIABLES
    pc, exc,
    wallet_addresses, i, now, response,
    wallet_address, transactions, features, all_features,
    features_df, normalized_df, raw_score, scores, output_df,
    perm, scores_permuted

vars ==
    <<pc, exc, wallet_addresses, i, now, response, wallet_address, transactions,
      features, all_features, features_df, normalized_df, raw_score, scores, output_df,
      perm, scores_permuted>>

NoResponse == [kind |-> "none"]
NoFeatures == <<>>
NoFrame == DataFrame(<<>>)

Blank ==
    /\ exc = ""
    /\ response = NoResponse
    /\ features = NoFeatures
    /\ all_features = <<>>
    /\ normalized_df = <<>>
    /\ raw_score = <<>>
    /\ scores = <<>>
    /\ output_df = <<>>
    /\ scores_permuted = <<>>

(***************************************************************************)
(* The main block.                                                         *)
(***************************************************************************)
Init ==
    /\ Blank
    /\ wallet_addresses \in SeqsUpTo(Addresses, MaxWallets)
    /\ pc = IF wallet_addresses = <<>> THEN "frame" ELSE "fetch"
    /\ i = 1
    /\ now \in StartTimes
    /\ wallet_address = <<>>
    /\ transactions = <<>>
    /\ features_df = NoFrame
    /\ perm = <<>>

\* transactions = get_transactions(address); the call takes time.
GetTransactions ==
    /\ pc = "fetch"
    /\ \E r \in Responses, elapsed \in {0, SecondsPerDay} :
          /\ response' = r
          /\ transactions' = get_transactions(r)
          /\ now' = now + elapsed
    /\ wallet_address' = wallet_addresses[i]
    /\ pc' = "extract"
    /\ UNCHANGED <<exc, wallet_addresses, i, features, all_features, features_df,
                   normalized_df, raw_score, scores, output_df, perm, scores_permuted>>

\* features = calculate_features(transactions, address); all_features.append(features)
CalculateFeatures ==
    /\ pc = "extract"
    /\ \E r \in {calculate_features(transactions, wallet_address, now)} :
          IF r.exc # ""
          THEN /\ pc' = "aborted"
               /\ exc' = r.exc
               /\ UNCHANGED <<features, all_features, i>>
          ELSE /\ features' = r.value
               /\ all_features' = Append(all_features, r.value)
               /\ i' = i + 1
               /\ pc' = IF i + 1 > Len(wallet_addresses) THEN "frame" ELSE "fetch"
               /\ UNCHANGED exc
    /\ UNCHANGED <<wallet_addresses, now, response, wallet_address, transactions,
                   features_df, normalized_df, raw_score, scores, output_df, perm,
                   scores_permuted>>

\* pd.DataFrame(all_features).set_index("wallet_address"), then fillna(0): a
\* frame built from an empty list has no column to index by.
CreateDataFrame ==
    /\ pc = "frame"
    /\ \E r \in {SetIndex(DataFrame(all_features), "wallet_address")} :
          IF r.exc # ""
          THEN pc' = "aborted" /\ exc' = r.exc /\ UNCHANGED features_df
          ELSE pc' = "score" /\ features_df' = FillNa(r.value) /\ UNCHANGED exc
    /\ UNCHANGED <<wallet_addresses, i, now, response, wallet_address, transactions,
                   features, all_features, normalized_df, raw_score, scores, output_df,
                   perm, scores_permuted>>

\* scores = calculate_risk_scores(features_df)
CalculateScores ==
    /\ pc = "score"
    /\ IF ~HasFeatures(features_df)
       THEN pc' = "aborted" /\ exc' = "KeyError" /\ UNCHANGED <<normalized_df, raw_score, scores>>
       ELSE /\ normalized_df' = Normalize(features_df.rows)
            /\ raw_score' = RawScore(normalized_df', Len(features_df.rows))
            /\ \E r \in {AsTypeInt(FinalScore(raw_score'))} :
                  IF r.exc # ""
                  THEN pc' = "aborted" /\ exc' = r.exc /\ UNCHANGED scores
                  ELSE pc' = "save" /\ scores' = r.value /\ UNCHANGED exc
    /\ UNCHANGED <<wallet_addresses, i, now, response, wallet_address, transactions,
                   features, all_features, features_df, output_df, perm, scores_permuted>>

\* output_df = ...; output_df.to_csv("risk_scores.csv")
SaveOutput ==
    /\ pc = "save"
    /\ output_df' = OutputDf(features_df, scores)
    /\ pc' = "done"
    /\ UNCHANGED <<exc, wallet_addresses, i, now, response, wallet_address, transactions,
                   features, all_features, features_df, normalized_df, raw_score, scores,
                   perm, scores_permuted>>

Next == GetTransactions \/ CalculateFeatures \/ CreateDataFrame \/ CalculateScores \/ SaveOutput

Spec == Init /\ [][Next]_vars

(***************************************************************************)
(* calculate_features on its own: any wallet, any list of transactions.    *)
(***************************************************************************)
InitCall ==
    /\ Blank
    /\ wallet_address \in Addresses
    /\ wallet_addresses = <<wallet_address>>
    /\ i = 1
    /\ now \in StartTimes
    /\ features_df = NoFrame
    /\ perm = <<>>
    /\ pc = "extract"

InitFeatures == InitCall /\ transactions \in SeqsUpTo(Transactions, MaxTx)

SpecFeatures == InitFeatures /\ [][CalculateFeatures]_vars

InitMalformed == InitCall /\ transactions \in SeqsUpTo(PartialTransactions, MaxTx)

SpecMalformed == InitMalformed /\ [][CalculateFeatures]_vars

(***************************************************************************)
(* calculate_risk_scores on its own: any batch of feature rows.            *)
(***************************************************************************)
InitBatch ==
    /\ Blank
    /\ wallet_addresses = <<>>
    /\ i = 1
    /\ now = 0
    /\ wallet_address = <<>>
    /\ transactions = <<>>
    /\ pc = "score"

InitScores == InitBatch /\ features_df \in Batches(FeatureRows, MaxBatch) /\ perm = <<>>

SpecScores == InitScores /\ [][CalculateScores \/ SaveOutput]_vars

(***************************************************************************)
(* calculate_risk_scores on a batch and on the same batch reordered: row j *)
(* of the reordered batch is row perm[j] of features_df.                   *)
(***************************************************************************)
Permuted(df, p) == [df EXCEPT !.rows = Series([j \in 1..Len(@) |-> @[p[j]]])]

InitPermuted ==
    /\ InitBatch
    /\ features_df \in Batches(PermutedRows, MaxBatch)
    /\ perm \in Permutations(1..Len(features_df.rows))

\* calculate_risk_scores(the reordered batch)
CalculateScoresPermuted ==
    /\ pc \in {"save", "aborted"}
    /\ scores_permuted = <<>>
    /\ scores_permuted' = <<calculate_risk_scores(Permuted(features_df, perm))>>
    /\ UNCHANGED <<pc, exc, wallet_addresses, i, now, response, wallet_address,
                   transactions, features, all_features, features_df, normalized_df,
                   raw_score, scores, output_df, perm>>

SpecPermuted == InitPermuted /\ [][CalculateScores \/ CalculateScoresPermuted]_vars

(***************************************************************************)
(* Properties of calculate_features (SpecFeatures, SpecMalformed).  After  *)
(* CalculateFeatures, pc is "frame" when the call returned (features is    *)
(* the record) and "aborted" when it raised (exc is the exception).        *)
(***************************************************************************)
Extracted == pc \in {"frame", "aborted"}

\* C3, as the code has it: for every wallet address, calculate_features of an
\* empty transaction list returns the record whose six feature values are all 0,
\* the two mock flags included, whatever the address.
C3_EmptyListAllZero ==
    (Extracted /\ transactions = <<>>) =>
        /\ exc = ""
        /\ features.wallet_address = wallet_address
        /\ features.wallet_age_days = 0
        /\ features.tx_count = 0
        /\ features.avg_eth_sent = FZero
        /\ features.unique_recipients = 0
        /\ features.mock_liquidations = 0
        /\ features.mock_high_ltv_borrows = 0

\* An empty list for 0xa1, whose last character is in '012' and whose
\* second-to-last is in 'abc': both flags are 0 all the same.
C3_Witness ==
    /\ pc = "frame"
    /\ transactions = <<>>
    /\ wallet_address = Addr_a1
    /\ MockLiquidations(wallet_address) = 1
    /\ MockHighLtvBorrows(wallet_address) = 1
    /\ features.mock_liquidations = 0
    /\ features.mock_high_ltv_borrows = 0

\* C3 as stated: with an empty list the four counters are 0 and the two mock
\* flags follow the address rule of the non-empty case.
C3_FlagsFromAddress ==
    (Extracted /\ transactions = <<>>) =>
        /\ exc = ""
        /\ features.wallet_age_days = 0
        /\ features.tx_count = 0
        /\ features.avg_eth_sent = FZero
        /\ features.unique_recipients = 0
        /\ features.mock_liquidations = MockLiquidations(wallet_address)
        /\ features.mock_high_ltv_borrows = MockHighLtvBorrows(wallet_address)

\* The indices of the transactions the wallet sent, compared case-insensitively.
SentBy(txs, address) == {j \in 1..Len(txs) : Lower(txs[j]["from"]) = Lower(address)}

\* C6: for every list of transactions and wallet address, the returned record
\* has unique_recipients <= tx_count, where tx_count is the number of input
\* transactions (sent and received) and unique_recipients is the number of
\* distinct recipients among the transactions whose sender is the wallet,
\* compared case-insensitively.
C6_RecipientsAtMostCount ==
    (Extracted /\ exc = "") =>
        /\ features.unique_recipients <= features.tx_count
        /\ features.tx_count = Len(transactions)
        /\ features.unique_recipients =
               Cardinality({transactions[j]["to"] : j \in SentBy(transactions, wallet_address)})

\* Two transactions, sent by the wallet under another capitalisation, to two
\* recipients: unique_recipients reaches tx_count.
C6_Witness ==
    /\ pc = "frame"
    /\ Len(transactions) = 2
    /\ wallet_address = Addr_a1
    /\ transactions[1]["from"] = Addr_A1
    /\ features.tx_count = 2
    /\ features.unique_recipients = 2

\* The transactions that have every required field.
WellFormed(txs) == SelectSeq(txs, LAMBDA tx : DOMAIN tx = Keys)

\* C7: a transaction that lacks a required field is skipped: the call returns,
\* and returns the record of the remaining, well-formed transactions.
C7_MalformedSkipped ==
    Extracted =>
        /\ exc = ""
        /\ features = calculate_features(WellFormed(transactions), wallet_address, now).value

(***************************************************************************)
(* Properties of calculate_risk_scores (SpecScores, SpecPermuted).  After  *)
(* CalculateScores, pc is "save" or "done" when the call returned (scores  *)
(* is the result) and "aborted" when it raised.                            *)
(***************************************************************************)
Scored == pc \in {"save", "done", "aborted"}

One == FFromInt(1)

\* a <= b
FLe(a, b) == a = b \/ FLt(a, b)

AllEqual(series) == \A j, k \in 1..Len(series) : series[j] = series[k]

\* Position j holds the least (greatest) value of the series.
IsMin(series, j) == \A k \in 1..Len(series) : FLe(series[j], series[k])
IsMax(series, j) == \A k \in 1..Len(series) : FLe(series[k], series[j])

\* C1: for any non-empty batch of feature records, batches whose raw scores are
\* all equal included, calculate_risk_scores returns one integer score in
\* 0..1000 per record.
C1_ScoresInRange ==
    (Scored /\ features_df.rows # <<>>) =>
        /\ exc = ""
        /\ Len(scores) = Len(features_df.rows)
        /\ \A j \in 1..Len(scores) : scores[j] \in 0..1000

\* C2: when the greatest raw score equals the least (one record, or all records
\* scored alike), calculate_risk_scores returns 0 for every wallet and does not
\* fail.
C2_DegenerateBatchZero ==
    (Scored /\ features_df.rows # <<>> /\ Len(raw_score) = Len(features_df.rows)
            /\ AllEqual(raw_score)) =>
        /\ exc = ""
        /\ Len(scores) = Len(features_df.rows)
        /\ \A j \in 1..Len(scores) : scores[j] = 0

\* C5: in a batch whose raw scores are not all equal, every wallet with the
\* least raw score gets 0 and every wallet with the greatest gets exactly 1000.
C5_ExtremesGetEndpoints ==
    (Scored /\ Len(raw_score) = Len(features_df.rows) /\ ~AllEqual(raw_score)) =>
        /\ exc = ""
        /\ Len(scores) = Len(raw_score)
        /\ \A j \in 1..Len(scores) :
              /\ IsMin(raw_score, j) => scores[j] = 0
              /\ IsMax(raw_score, j) => scores[j] = 1000

\* C9: calculate_risk_scores of an empty batch returns an empty result and does
\* not raise.
C9_EmptyBatchEmptyResult ==
    (Scored /\ features_df.rows = <<>>) => (exc = "" /\ scores = <<>>)

\* C10: for each of the six weighted features, if the batch's greatest value of
\* the feature equals its least, the normalized value is 0 for every record and
\* the feature adds 0 to every raw score; otherwise the normalized value is
\* (value - min) / (max - min) and lies in [0, 1].
C10_NormalizedFeature ==
    (Scored /\ normalized_df # <<>>) =>
        \A n \in 1..Len(Features) :
        \E col \in {Column(features_df.rows, Features[n])} :
            /\ Len(normalized_df[n]) = Len(col)
            /\ \A j \in 1..Len(col) :
               \E v \in {normalized_df[n][j]} :
                  IF AllEqual(col)
                  THEN v = FZero /\ FMul(v, weights[Features[n]]) = FZero
                  ELSE \E lo, hi \in 1..Len(col) :
                          /\ IsMin(col, lo)
                          /\ IsMax(col, hi)
                          /\ v = FDiv(FSub(col[j], col[lo]), FSub(col[hi], col[lo]))
                          /\ FLe(FZero, v)
                          /\ FLe(v, One)

\* A batch with a feature every record agrees on (normalized to 0) and a feature
\* one record holds strictly between the others (normalized strictly inside
\* [0, 1]).
C10_Witness ==
    /\ Scored
    /\ Len(features_df.rows) = 3
    /\ normalized_df # <<>>
    /\ \E n \in 1..Len(Features) :
          /\ AllEqual(Column(features_df.rows, Features[n]))
          /\ \A j \in 1..3 : normalized_df[n][j] = FZero
    /\ \E n \in 1..Len(Features), j \in 1..3 :
          normalized_df[n][j] \notin {FZero, One}

\* C4: for every batch and every permutation of it, calculate_risk_scores
\* gives each wallet of the permuted batch the score it gives it in the
\* unpermuted batch (and raises on the one exactly when it raises on the other).
C4_OrderIndependent ==
    (Scored /\ scores_permuted # <<>>) =>
        /\ scores_permuted[1].exc = exc
        /\ exc = "" =>
              /\ Len(scores_permuted[1].value) = Len(scores)
              /\ \A j \in 1..Len(scores) : scores_permuted[1].value[j] = scores[perm[j]]

\* Three wallets with three different scores, scored again in a rotated order.
C4_Witness ==
    /\ pc = "save"
    /\ scores_permuted # <<>>
    /\ perm = <<2, 3, 1>>
    /\ Cardinality({scores[j] : j \in 1..Len(scores)}) = 3
    /\ scores_permuted[1].exc = ""

(***************************************************************************)
(* Properties of the run (Spec).                                           *)
(***************************************************************************)
\* C8: whatever wallets are given and whichever retrievals fail, the run does
\* not abort, and its output holds one (address, score) record per input wallet,
\* in input order.
C8_RunNeverAborts ==
    wallet_addresses # <<>> =>
        /\ pc # "aborted"
        /\ pc = "done" =>
              /\ Len(output_df) = Len(wallet_addresses)
              /\ \A j \in 1..Len(output_df) : output_df[j].wallet_id = wallet_addresses[j]

====
